---- MODULE Spec2Model ----
(***************************************************************************)
(* Model of the user service of go-mongo-restapi                           *)
(* (src/business/user/user.go): Login, Create, GetByID, Update, Delete,    *)
(* AtomicTransationProof and their helpers createToken, validateClaims,    *)
(* hashPassword and checkPasswordHash, over a document collection.         *)
(*                                                                         *)
(* Go strings that may hold a password or a bcrypt hash are records        *)
(* [bcrypt, salt, body]: a plaintext p is Raw(p), the output of bcrypt for *)
(* p under salt s is [bcrypt |-> TRUE, salt |-> s, body |-> p].            *)
(* Identifier strings are naturals: k > 0 is the hex form of ObjectID k,   *)
(* BadHex is a string that is not the hex form of any ObjectID.            *)
(* Errors are records [kind, code]; NoErr is Go's nil error.               *)
(*                                                                         *)
(* The collection is a sequence of documents in insertion order.  A lookup *)
(* returns what the collection holds (it fails only on a malformed or      *)
(* unknown identifier); an insert may be refused by the storage engine     *)
(* (duplicate key, write concern), which is a choice of the environment.   *)
(* entities.Claim is not part of the sources at hand: its enumeration and  *)
(* display names are ClaimNames.                                           *)
(*                                                                         *)
(* Spec runs the calls one after another, TokenSpec applies createToken to *)
(* every bounded input, ConcSpec interleaves two callers at the storage    *)
(* calls of Create, Update and AtomicTransationProof and lets the caller's *)
(* ctx be cancelled while a call is in flight.                             *)
(***************************************************************************)
EXTENDS Integers, Sequences, FiniteSets, TLC

\* ------------------------------------------------------------------ bounds
MaxWrites == 2
MaxClock == 2
MaxConcCalls == 3
MaxTokLen == 2

\* --------------------------------------------------------------- constants
HoursValid == 168
SecondsPerHour == 3600
BadHex == 0
ZeroTime == 0
JWTSecret == "secret"

\* ------------------------------------------------- entities.Claim (models)
ClaimNames == [c \in {0, 1} |-> IF c = 0 THEN "Admin" ELSE "Operator"]
IsValid(c) == c \in DOMAIN ClaimNames
ClaimString(c) == ClaimNames[c]

\* ------------------------------------------------------------------ values
NoErr == [kind |-> "nil", code |-> 0]
Err(k) == [kind |-> k, code |-> 0]
Raw(p) == [bcrypt |-> FALSE, salt |-> 0, body |-> p]
None == [present |-> FALSE, val |-> ""]
NoClaims == [present |-> FALSE, val |-> <<>>]
NoPassword == [present |-> FALSE, val |-> Raw("")]
Some(v) == [present |-> TRUE, val |-> v]

VARIABLES store,    \* the user collection, documents in insertion order
          clock,    \* time.Now().UTC() in seconds
          oid,      \* the last ObjectID handed to the collection
          writes,   \* number of calls that changed the collection
          prev,     \* the collection before the last call
          last,     \* the last call: operation, arguments, results
          cstore, pc, call, loaded, txn, ctxDone, cancelledPending, calls,
          tin, tout

vars == <<store, clock, oid, writes, prev, last,
          cstore, pc, call, loaded, txn, ctxDone, cancelledPending, calls,
          tin, tout>>
concVars == <<cstore, pc, call, loaded, txn, ctxDone, cancelledPending, calls>>
tokVars == <<tin, tout>>
seqVars == <<store, clock, oid, writes, prev, last>>

\* --------------------------------------------------------------- helpers
\* validateClaims: the error names the first invalid code in iteration order
RECURSIVE validateClaimsLast(_)
validateClaimsLast(claims) ==
    IF claims = <<>> THEN NoErr
    ELSE LET rest == validateClaimsLast(Tail(claims))
         IN IF rest # NoErr THEN rest
            ELSE IF ~IsValid(Head(claims))
            THEN [kind |-> "not valid claim detected", code |-> Head(claims)]
            ELSE NoErr

RECURSIVE validateClaims(_)
validateClaims(claims) ==
    IF claims = <<>> THEN NoErr
    ELSE IF ~IsValid(Head(claims))
         THEN [kind |-> "not valid claim detected", code |-> Head(claims)]
         ELSE validateClaims(Tail(claims))

\* hashPassword: rnd = 0 is a failure of bcrypt.GenerateFromPassword,
\* rnd > 0 is the salt it drew; the string is replaced only on success
hashPassword(password, rnd) ==
    IF rnd = 0
    THEN [err |-> Err("bcrypt"), val |-> password]
    ELSE [err |-> NoErr,
          val |-> [bcrypt |-> TRUE, salt |-> rnd, body |-> password.body]]

\* checkPasswordHash: a string that is not a bcrypt hash never verifies
checkPasswordHash(password, hash) ==
    hash.bcrypt /\ ~password.bcrypt /\ hash.body = password.body

\* createToken: the MapClaims are filled, the claims validated, then signed
RECURSIVE addClaimFlags(_, _)
addClaimFlags(m, claims) ==
    IF claims = <<>> THEN m
    ELSE addClaimFlags(
           [k \in DOMAIN m \cup {ClaimString(Head(claims))} |->
               IF k = ClaimString(Head(claims)) THEN TRUE ELSE m[k]],
           Tail(claims))

NoToken == [alg |-> "", payload |-> <<>>, key |-> ""]

createToken(userid, jwtSecret, claims, now) ==
    LET addClaims == [k \in {"authorized", "user_id", "exp"} |->
                        CASE k = "authorized" -> TRUE
                          [] k = "user_id" -> userid
                          [] OTHER -> now + HoursValid * SecondsPerHour]
        err == validateClaims(claims)
    IN IF err # NoErr
       THEN [err |-> err, token |-> NoToken]
       ELSE [err |-> NoErr,
             token |-> [alg |-> "HS256",
                        payload |-> addClaimFlags(addClaims, claims),
                        key |-> jwtSecret]]

\* ----------------------------------------------------- repository (mongo)
ObjectIDFromHex(s) == IF s = BadHex THEN [err |-> Err("invalid id"), id |-> 0]
                      ELSE [err |-> NoErr, id |-> s]
Hex(id) == id

RepoGet(coll, email) == SelectSeq(coll, LAMBDA d : d.Email = email)

RepoGetByID(coll, ID) ==
    LET o == ObjectIDFromHex(ID)
        found == SelectSeq(coll, LAMBDA d : d.ID = o.id)
    IN IF o.err # NoErr THEN [err |-> o.err, found |-> <<>>]
       ELSE IF found = <<>> THEN [err |-> Err("not found"), found |-> <<>>]
       ELSE [err |-> NoErr, found |-> found]

RepoCreate(coll, doc) == Append(coll, doc)

RepoUpdate(coll, ID, doc) ==
    LET o == ObjectIDFromHex(ID)
    IN IF o.err # NoErr THEN [err |-> o.err, coll |-> coll]
       ELSE IF \A i \in 1..Len(coll) : coll[i].ID # o.id
            THEN [err |-> Err("not found"), coll |-> coll]
            ELSE [err |-> NoErr,
                  coll |-> [i \in 1..Len(coll) |->
                              IF coll[i].ID = o.id THEN doc ELSE coll[i]]]

RepoDelete(coll, ID) ==
    LET o == ObjectIDFromHex(ID)
    IN IF o.err # NoErr THEN [err |-> o.err, coll |-> coll]
       ELSE IF \A i \in 1..Len(coll) : coll[i].ID # o.id
            THEN [err |-> Err("not found"), coll |-> coll]
            ELSE [err |-> NoErr,
                  coll |-> SelectSeq(coll, LAMBDA d : d.ID # o.id)]

\* ------------------------------------------------------------------ inputs
Rnd == {0, 1}
IDStrings == {BadHex, 1, 2}
LoginEmails == {"e1", "e2"}
LoginPasswords == {"p1", "p2"}

NewUser(email, p, claims) ==
    [ID |-> 99, Name |-> "n1", Surnames |-> "s1", Email |-> email,
     PasswordHash |-> Raw(p), Claims |-> claims,
     CreatedAt |-> 77, UpdatedAt |-> 88]

CreateInputs ==
    { NewUser("e1", "p1", <<0>>),
      NewUser("e2", "", <<1, 0>>),
      NewUser("e1", "p1", <<1, 3, 2>>) }

Patch(n, s, e, o, w, c) ==
    [Name |-> n, Surnames |-> s, Email |-> e,
     OldPassword |-> o, NewPassword |-> w, Claims |-> c]

UpdateInputs ==
    { Patch(Some("n2"), None, None, NoPassword, NoPassword, NoClaims),
      Patch(None, Some("s2"), Some("e2"), NoPassword, NoPassword, Some(<<1, 1>>)),
      Patch(Some("n2"), None, None, NoPassword, NoPassword, Some(<<0, 2>>)),
      Patch(None, None, None, Some(Raw("p1")), Some(Raw("p2")), NoClaims),
      Patch(Some("n2"), None, Some("e2"), Some(Raw("bad")), Some(Raw("p2")), NoClaims),
      Patch(None, None, None, NoPassword, Some(Raw("p2")), NoClaims) }

\* ------------------------------------------------------------------- state
NoCall == [op |-> "none"]

SeqInit ==
    /\ store = <<>>
    /\ clock = 1
    /\ oid = 0
    /\ writes = 0
    /\ prev = <<>>
    /\ last = NoCall

ConcIdle ==
    /\ cstore = <<>>
    /\ pc = <<>>
    /\ call = <<>>
    /\ loaded = <<>>
    /\ txn = <<>>
    /\ ctxDone = <<>>
    /\ cancelledPending = <<>>
    /\ calls = 0

TokIdle ==
    /\ tin = <<>>
    /\ tout = <<>>

Init == SeqInit /\ ConcIdle /\ TokIdle

\* time passes
Tick ==
    /\ clock < MaxClock
    /\ clock' = clock + 1
    /\ UNCHANGED <<store, oid, writes, prev, last>>
    /\ UNCHANGED concVars /\ UNCHANGED tokVars

\* ------------------------------------------------------------------ Login
LoginResultNoCheck(coll, email, password, now) ==
    LET result == RepoGet(coll, email)
    IN IF Len(result) < 1
       THEN [err |-> Err("email not found"), user |-> <<>>, token |-> NoToken]
       ELSE LET user == result[1]
                t == createToken(Hex(user.ID), JWTSecret, user.Claims, now)
            IN IF t.err # NoErr
               THEN [err |-> t.err, user |-> <<>>, token |-> NoToken]
               ELSE [err |-> NoErr, user |-> <<user>>, token |-> t.token]

LoginResult(coll, email, password, now) ==
    LET result == RepoGet(coll, email)
    IN IF Len(result) < 1
       THEN [err |-> Err("email not found"), user |-> <<>>, token |-> NoToken]
       ELSE LET user == result[1]
            IN IF checkPasswordHash(password, user.PasswordHash)
               THEN LET t == createToken(Hex(user.ID), JWTSecret, user.Claims, now)
                    IN IF t.err # NoErr
                       THEN [err |-> t.err, user |-> <<>>, token |-> NoToken]
                       ELSE [err |-> NoErr, user |-> <<user>>, token |-> t.token]
               ELSE [err |-> Err("incorrect password"), user |-> <<>>,
                     token |-> NoToken]

Login ==
    \E email \in LoginEmails, p \in LoginPasswords :
        LET r == LoginResult(store, email, Raw(p), clock)
        IN /\ last' = [op |-> "Login", email |-> email, password |-> Raw(p),
                       now |-> clock, err |-> r.err, user |-> r.user,
                       token |-> r.token]
           /\ prev' = store
           /\ UNCHANGED <<store, clock, oid, writes>>
           /\ UNCHANGED concVars /\ UNCHANGED tokVars

\* ----------------------------------------------------------------- Create
\* the document Create hands to the repository, or the error it returns first
CreateDocPlain(u, rnd, newID, now) ==
    LET v == validateClaims(u.Claims)
    IN IF rnd = 0 THEN [err |-> Err("bcrypt"), doc |-> u]
       ELSE IF v # NoErr THEN [err |-> v, doc |-> u]
       ELSE [err |-> NoErr,
             doc |-> [u EXCEPT !.ID = newID, !.CreatedAt = now,
                               !.UpdatedAt = now]]

CreateDocKeepStamp(u, rnd, newID, now) ==
    LET h == hashPassword(u.PasswordHash, rnd)
        v == validateClaims(u.Claims)
    IN IF h.err # NoErr THEN [err |-> h.err, doc |-> u]
       ELSE IF v # NoErr THEN [err |-> v, doc |-> u]
       ELSE [err |-> NoErr,
             doc |-> [u EXCEPT !.PasswordHash = h.val, !.ID = newID,
                               !.CreatedAt = now]]

CreateDoc(u, rnd, newID, now) ==
    LET h == hashPassword(u.PasswordHash, rnd)
        v == validateClaims(u.Claims)
    IN IF h.err # NoErr THEN [err |-> h.err, doc |-> u]
       ELSE IF v # NoErr THEN [err |-> v, doc |-> u]
       ELSE [err |-> NoErr,
             doc |-> [u EXCEPT !.PasswordHash = h.val, !.ID = newID,
                               !.CreatedAt = now, !.UpdatedAt = now]]

Create ==
    \E u \in CreateInputs, rnd \in Rnd, insertOk \in BOOLEAN :
        LET c == CreateDoc(u, rnd, oid + 1, clock)
            inserted == c.err = NoErr /\ insertOk
        IN /\ inserted => writes < MaxWrites
           /\ prev' = store
           /\ store' = IF inserted THEN RepoCreate(store, c.doc) ELSE store
           /\ oid' = IF inserted THEN oid + 1 ELSE oid
           /\ writes' = IF inserted THEN writes + 1 ELSE writes
           /\ last' = [op |-> "Create", u |-> u, rnd |-> rnd, now |-> clock,
                       err |-> IF c.err # NoErr THEN c.err
                               ELSE IF insertOk THEN NoErr
                               ELSE Err("write error"),
                       InsertedID |-> IF inserted THEN c.doc.ID ELSE 0,
                       issued |-> IF c.err = NoErr THEN 1 ELSE 0]
           /\ UNCHANGED clock
           /\ UNCHANGED concVars /\ UNCHANGED tokVars

\* ---------------------------------------------------------------- GetByID
GetByID ==
    \E ID \in IDStrings :
        LET r == RepoGetByID(store, ID)
        IN /\ last' = [op |-> "GetByID", ID |-> ID, err |-> r.err,
                       user |-> r.found,
                       after |-> IF last.op = "Create" THEN last ELSE NoCall]
           /\ prev' = store
           /\ UNCHANGED <<store, clock, oid, writes>>
           /\ UNCHANGED concVars /\ UNCHANGED tokVars

\* ----------------------------------------------------------------- Update
\* the in-memory merge of Update: the document it would write, or the error
\* (or panic) that ends it before the write
ApplyPatchZero(user, u, rnd, now) ==
    LET u1 == [user EXCEPT !.Name = u.Name.val]
        u2 == [u1 EXCEPT !.Surnames = u.Surnames.val]
        u3 == [u2 EXCEPT !.Email = u.Email.val]
        h == hashPassword(u.NewPassword.val, rnd)
        v == validateClaims(u.Claims.val)
    IN IF u.NewPassword.present /\ ~u.OldPassword.present
       THEN [err |-> Err("panic: nil pointer dereference"), doc |-> u3]
       ELSE IF u.NewPassword.present
               /\ ~checkPasswordHash(u.OldPassword.val, u3.PasswordHash)
       THEN [err |-> Err("old password incorrect"), doc |-> u3]
       ELSE IF u.NewPassword.present /\ h.err # NoErr
       THEN [err |-> h.err, doc |-> u3]
       ELSE LET u4 == IF u.NewPassword.present
                      THEN [u3 EXCEPT !.PasswordHash = h.val] ELSE u3
            IN IF u.Claims.present /\ v # NoErr
               THEN [err |-> v, doc |-> u4]
               ELSE [err |-> NoErr,
                     doc |-> [u4 EXCEPT !.Claims = u.Claims.val,
                                        !.UpdatedAt = now]]

ApplyPatch(user, u, rnd, now) ==
    LET u1 == IF u.Name.present THEN [user EXCEPT !.Name = u.Name.val] ELSE user
        u2 == IF u.Surnames.present THEN [u1 EXCEPT !.Surnames = u.Surnames.val]
              ELSE u1
        u3 == IF u.Email.present THEN [u2 EXCEPT !.Email = u.Email.val] ELSE u2
        h == hashPassword(u.NewPassword.val, rnd)
        v == validateClaims(u.Claims.val)
    IN IF u.NewPassword.present /\ ~u.OldPassword.present
       THEN [err |-> Err("panic: nil pointer dereference"), doc |-> u3]
       ELSE IF u.NewPassword.present
               /\ ~checkPasswordHash(u.OldPassword.val, u3.PasswordHash)
       THEN [err |-> Err("old password incorrect"), doc |-> u3]
       ELSE IF u.NewPassword.present /\ h.err # NoErr
       THEN [err |-> h.err, doc |-> u3]
       ELSE LET u4 == IF u.NewPassword.present
                      THEN [u3 EXCEPT !.PasswordHash = h.val] ELSE u3
            IN IF u.Claims.present /\ v # NoErr
               THEN [err |-> v, doc |-> u4]
               ELSE LET u5 == IF u.Claims.present
                              THEN [u4 EXCEPT !.Claims = u.Claims.val] ELSE u4
                    IN [err |-> NoErr, doc |-> [u5 EXCEPT !.UpdatedAt = now]]

UpdateEager ==
    \E ID \in IDStrings, u \in UpdateInputs, rnd \in Rnd :
        LET g == RepoGetByID(store, ID)
            a == ApplyPatch(g.found[1], u, rnd, clock)
            w == RepoUpdate(store, ID, a.doc)
            written == g.err = NoErr
        IN /\ written => writes < MaxWrites
           /\ prev' = store
           /\ store' = IF written THEN w.coll ELSE store
           /\ writes' = IF written THEN writes + 1 ELSE writes
           /\ last' = [op |-> "Update", ID |-> ID, u |-> u, now |-> clock,
                       err |-> IF g.err # NoErr THEN g.err
                               ELSE IF a.err # NoErr THEN a.err ELSE w.err,
                       issued |-> IF written THEN 1 ELSE 0]
           /\ UNCHANGED <<clock, oid>>
           /\ UNCHANGED concVars /\ UNCHANGED tokVars

Update ==
    \E ID \in IDStrings, u \in UpdateInputs, rnd \in Rnd :
        LET g == RepoGetByID(store, ID)
            a == ApplyPatch(g.found[1], u, rnd, clock)
            w == RepoUpdate(store, ID, a.doc)
            written == g.err = NoErr /\ a.err = NoErr
        IN /\ written => writes < MaxWrites
           /\ prev' = store
           /\ store' = IF written THEN w.coll ELSE store
           /\ writes' = IF written THEN writes + 1 ELSE writes
           /\ last' = [op |-> "Update", ID |-> ID, u |-> u, now |-> clock,
                       err |-> IF g.err # NoErr THEN g.err
                               ELSE IF a.err # NoErr THEN a.err ELSE w.err,
                       issued |-> IF written THEN 1 ELSE 0]
           /\ UNCHANGED <<clock, oid>>
           /\ UNCHANGED concVars /\ UNCHANGED tokVars

\* ----------------------------------------------------------------- Delete
Delete ==
    \E ID \in IDStrings :
        LET r == RepoDelete(store, ID)
        IN /\ r.err = NoErr => writes < MaxWrites
           /\ last' = [op |-> "Delete", ID |-> ID, err |-> r.err]
           /\ prev' = store
           /\ store' = r.coll
           /\ writes' = IF r.err = NoErr THEN writes + 1 ELSE writes
           /\ UNCHANGED <<clock, oid>>
           /\ UNCHANGED concVars /\ UNCHANGED tokVars

\* -------------------------------------------------- AtomicTransationProof
DemoEntity(name, id, hash) ==
    [ID |-> id, Name |-> name, Surnames |-> name, Email |-> name,
     PasswordHash |-> hash, Claims |-> <<>>,
     CreatedAt |-> ZeroTime, UpdatedAt |-> ZeroTime]

\* the transaction callback run on the session's view of the collection: the
\* view it leaves to commit, or the error of the insert that failed
Callback(view, id1, id2, user1Hash, user2Hash, ok1, ok2) ==
    LET s1 == RepoCreate(view, DemoEntity("Entity1", id1, user1Hash))
        s2 == RepoCreate(s1, DemoEntity("Entity2", id2, user2Hash))
    IN IF ~ok1 THEN [err |-> Err("write error"), coll |-> view]
       ELSE IF ~ok2 THEN [err |-> Err("write error"), coll |-> s1]
       ELSE [err |-> NoErr, coll |-> s2]

WithTransactionNoAbort(coll, cb) == [err |-> cb.err, coll |-> cb.coll]

\* session.WithTransaction: commit on a nil error, abort otherwise
WithTransaction(coll, cb) ==
    IF cb.err = NoErr THEN [err |-> NoErr, coll |-> cb.coll]
    ELSE [err |-> cb.err, coll |-> coll]

AtomicOutcomes ==
    { [rnd1 |-> 0, rnd2 |-> 1, ok1 |-> TRUE, ok2 |-> TRUE],
      [rnd1 |-> 1, rnd2 |-> 0, ok1 |-> TRUE, ok2 |-> TRUE],
      [rnd1 |-> 1, rnd2 |-> 1, ok1 |-> FALSE, ok2 |-> TRUE],
      [rnd1 |-> 1, rnd2 |-> 1, ok1 |-> TRUE, ok2 |-> FALSE],
      [rnd1 |-> 1, rnd2 |-> 1, ok1 |-> TRUE, ok2 |-> TRUE] }

AtomicTransationProof ==
    \E o \in AtomicOutcomes :
        LET h1 == hashPassword(Raw("Entity1"), o.rnd1)
            h2 == hashPassword(Raw("Entity2"), o.rnd2)
            cb == Callback(store, oid + 1, oid + 2, h1.val, h2.val, o.ok1, o.ok2)
            r == WithTransaction(store, cb)
            hashed == h1.err = NoErr /\ h2.err = NoErr
            committed == hashed /\ r.err = NoErr
        IN /\ committed => writes < MaxWrites
           /\ prev' = store
           /\ store' = IF hashed THEN r.coll ELSE store
           /\ oid' = IF committed THEN oid + 2 ELSE oid
           /\ writes' = IF committed THEN writes + 1 ELSE writes
           /\ last' = [op |-> "AtomicTransationProof",
                       err |-> IF h1.err # NoErr THEN h1.err
                               ELSE IF h2.err # NoErr THEN h2.err ELSE r.err,
                       o |-> o, ids |-> {oid + 1, oid + 2}]
           /\ UNCHANGED clock
           /\ UNCHANGED concVars /\ UNCHANGED tokVars

\* ------------------------------------------------------------ token issue
\* createToken on its own, for every user id, claim list and issuing time
ClaimCodes == 0..3

RECURSIVE SeqsUpTo(_)
SeqsUpTo(n) ==
    IF n = 0 THEN {<<>>}
    ELSE SeqsUpTo(n - 1)
         \cup {Append(q, c) : q \in {x \in SeqsUpTo(n - 1) : Len(x) = n - 1},
                              c \in ClaimCodes}

TokenInputs ==
    [userid : {1, 2}, claims : SeqsUpTo(MaxTokLen), now : {1, 5}]

TokInit ==
    /\ SeqInit
    /\ ConcIdle
    /\ tin \in TokenInputs
    /\ tout = <<>>

IssueToken ==
    /\ tout = <<>>
    /\ tout' = <<createToken(tin.userid, JWTSecret, tin.claims, tin.now)>>
    /\ UNCHANGED tin
    /\ UNCHANGED seqVars /\ UNCHANGED concVars

TokNext == IssueToken

TokenSpec == TokInit /\ [][TokNext]_vars

\* ------------------------------------------------------- concurrent calls
\* Two callers; each call is split at its storage calls.  ctxDone[p] is the
\* cancellation of the ctx the caller p passed to its current call.
Procs == {1, 2}
CtxErr == Err("context canceled")
ConcUser == NewUser("e1", "p1", <<0>>)
ConcPatches ==
    { Patch(Some("n2"), None, None, NoPassword, NoPassword, NoClaims),
      Patch(None, None, Some("e2"), NoPassword, NoPassword, NoClaims) }

ConcInit ==
    /\ SeqInit
    /\ TokIdle
    /\ cstore = <<>>
    /\ pc = [p \in Procs |-> "idle"]
    /\ call = [p \in Procs |-> NoCall]
    /\ loaded = [p \in Procs |-> <<>>]
    /\ txn = [p \in Procs |-> {}]
    /\ ctxDone = [p \in Procs |-> FALSE]
    /\ cancelledPending = [p \in Procs |-> FALSE]
    /\ calls = 0

Begin(p) ==
    /\ pc[p] = "idle"
    /\ calls < MaxConcCalls
    /\ calls' = calls + 1
    /\ ctxDone' = [ctxDone EXCEPT ![p] = FALSE]
    /\ cancelledPending' = [cancelledPending EXCEPT ![p] = FALSE]

Return(p, c, err) ==
    /\ pc' = [pc EXCEPT ![p] = "idle"]
    /\ call' = [call EXCEPT ![p] = [c EXCEPT !.err = err, !.returned = TRUE]]

NewCall(op, ID, u) ==
    [op |-> op, ID |-> ID, u |-> u, err |-> NoErr, returned |-> FALSE,
     overlap |-> FALSE]

\* the caller's cancellation signal fires while the call is in flight
Cancel(p) ==
    /\ pc[p] # "idle"
    /\ ~ctxDone[p]
    /\ ctxDone' = [ctxDone EXCEPT ![p] = TRUE]
    /\ cancelledPending' = [cancelledPending EXCEPT ![p] = TRUE]
    /\ UNCHANGED <<cstore, pc, call, loaded, txn, calls>>
    /\ UNCHANGED seqVars /\ UNCHANGED tokVars

\* Create: the insert is dispatched with ctx and applied by the server ...
ConcCreate(p) ==
    LET c == CreateDoc(ConcUser, 1, oid + 1, clock)
    IN /\ Begin(p)
       /\ cstore' = RepoCreate(cstore, c.doc)
       /\ oid' = oid + 1
       /\ pc' = [pc EXCEPT ![p] = "insertPending"]
       /\ call' = [call EXCEPT ![p] = NewCall("Create", Hex(c.doc.ID), ConcUser)]
       /\ UNCHANGED <<loaded, txn>>
       /\ UNCHANGED <<store, clock, writes, prev, last>> /\ UNCHANGED tokVars

\* ... and the pending call returns: with the ctx error once ctx is done
ConcCreateReturn(p) ==
    /\ pc[p] = "insertPending"
    /\ Return(p, call[p], IF ctxDone[p] THEN CtxErr ELSE NoErr)
    /\ UNCHANGED <<cstore, loaded, txn, ctxDone, cancelledPending, calls>>
    /\ UNCHANGED seqVars /\ UNCHANGED tokVars

\* Update up to its write: load by id, merge the patch into the copy
ConcUpdateLoad(p) ==
    \E ID \in {1}, u \in ConcPatches :
        LET g == RepoGetByID(cstore, ID)
            a == ApplyPatch(g.found[1], u, 1, clock)
            c == NewCall("Update", ID, u)
            racing == {q \in Procs : pc[q] = "loaded" /\ call[q].ID = ID}
        IN /\ Begin(p)
           /\ IF g.err # NoErr
              THEN Return(p, c, g.err) /\ UNCHANGED loaded
              ELSE IF a.err # NoErr
              THEN Return(p, c, a.err) /\ UNCHANGED loaded
              ELSE /\ pc' = [pc EXCEPT ![p] = "loaded"]
                   /\ loaded' = [loaded EXCEPT ![p] = a.doc]
                   /\ call' = [q \in Procs |->
                                 IF q = p
                                 THEN [c EXCEPT !.overlap = racing # {}]
                                 ELSE IF q \in racing
                                 THEN [call[q] EXCEPT !.overlap = TRUE]
                                 ELSE call[q]]
           /\ UNCHANGED <<cstore, txn>>
           /\ UNCHANGED seqVars /\ UNCHANGED tokVars

\* Update's write: the whole document replaces the stored one
ConcUpdateWrite(p) ==
    LET w == RepoUpdate(cstore, call[p].ID, loaded[p])
    IN /\ pc[p] = "loaded"
       /\ IF ctxDone[p]
          THEN Return(p, call[p], CtxErr) /\ UNCHANGED cstore
          ELSE Return(p, call[p], w.err) /\ cstore' = w.coll
       /\ loaded' = [loaded EXCEPT ![p] = <<>>]
       /\ UNCHANGED <<txn, ctxDone, cancelledPending, calls>>
       /\ UNCHANGED seqVars /\ UNCHANGED tokVars

\* AtomicTransationProof up to WithTransaction: session, the two hashes
ConcAtomicBegin(p) ==
    /\ Begin(p)
    /\ oid' = oid + 2
    /\ pc' = [pc EXCEPT ![p] = "inTransaction"]
    /\ txn' = [txn EXCEPT ![p] = {oid + 1, oid + 2}]
    /\ call' = [call EXCEPT ![p] = NewCall("AtomicTransationProof", BadHex, <<>>)]
    /\ UNCHANGED <<cstore, loaded>>
    /\ UNCHANGED <<store, clock, writes, prev, last>> /\ UNCHANGED tokVars

\* WithTransaction(context.Background(), callback, txnOpts): the callback's
\* inserts run under a context derived from context.Background(), so the
\* transaction does not observe ctxDone[p]
ConcAtomicRun(p) ==
    \E ok1 \in BOOLEAN, ok2 \in BOOLEAN :
        LET id1 == CHOOSE i \in txn[p] : \A j \in txn[p] : i <= j
            id2 == CHOOSE i \in txn[p] : \A j \in txn[p] : i >= j
            h1 == hashPassword(Raw("Entity1"), 1)
            h2 == hashPassword(Raw("Entity2"), 1)
            cb == Callback(cstore, id1, id2, h1.val, h2.val, ok1, ok2)
            r == WithTransaction(cstore, cb)
        IN /\ pc[p] = "inTransaction"
           /\ cstore' = r.coll
           /\ Return(p, [call[p] EXCEPT !.u = txn[p]], r.err)
           /\ txn' = [txn EXCEPT ![p] = {}]
           /\ UNCHANGED <<loaded, ctxDone, cancelledPending, calls>>
           /\ UNCHANGED seqVars /\ UNCHANGED tokVars

ConcNext ==
    \E p \in Procs :
        \/ Cancel(p)
        \/ ConcCreate(p)
        \/ ConcCreateReturn(p)
        \/ ConcUpdateLoad(p)
        \/ ConcUpdateWrite(p)
        \/ ConcAtomicBegin(p)
        \/ ConcAtomicRun(p)

ConcSpec == ConcInit /\ [][ConcNext]_vars

Next ==
    \/ Tick
    \/ Login
    \/ Create
    \/ GetByID
    \/ Update
    \/ Delete
    \/ AtomicTransationProof

Spec == Init /\ [][Next]_vars

\* ================================================================== claims

\* C1: every stored user has a non-empty passwordHash that is an output of the
\* hasher, never the plaintext a caller supplied, and only valid claim codes.
C1_StoredUsersHashedAndValid ==
    \A i \in 1..Len(store) :
        /\ ~(store[i].PasswordHash.bcrypt = FALSE /\ store[i].PasswordHash.body = "")
        /\ store[i].PasswordHash.bcrypt = TRUE
        /\ store[i].PasswordHash.salt > 0
        /\ store[i].PasswordHash # [bcrypt |-> FALSE, salt |-> 0,
                                    body |-> store[i].PasswordHash.body]
        /\ \A k \in 1..Len(store[i].Claims) : store[i].Claims[k] \in {0, 1}

C1_Witness ==
    /\ last.op = "AtomicTransationProof"
    /\ last.err = NoErr
    /\ Len(store) = 3
    /\ \E i \in 1..Len(store) :
          store[i].Email = "e2" /\ store[i].PasswordHash.body = ""

\* C2: AtomicTransationProof persists both demo records or neither; when the
\* first insert succeeds and the second fails it returns an error and none
\* of the two is visible.
C2_AtomicAllOrNothing ==
    last.op = "AtomicTransationProof" =>
        LET demo == {i \in 1..Len(store) : store[i].ID \in last.ids}
            names == {store[i].Name : i \in demo}
            kept == \A i \in 1..Len(prev) : i <= Len(store) /\ store[i] = prev[i]
        IN /\ kept
           /\ Len(store) = Len(prev) + Cardinality(demo)
           /\ \/ demo = {} /\ last.err # NoErr
              \/ Cardinality(demo) = 2 /\ names = {"Entity1", "Entity2"}
                 /\ last.err = NoErr
           /\ (last.o.rnd1 # 0 /\ last.o.rnd2 # 0 /\ last.o.ok1 /\ ~last.o.ok2)
                 => (last.err # NoErr /\ demo = {} /\ store = prev)

C2_Witness ==
    /\ last.op = "AtomicTransationProof"
    /\ last.o.rnd1 # 0 /\ last.o.rnd2 # 0 /\ last.o.ok1 /\ ~last.o.ok2
    /\ last.err # NoErr
    /\ Len(prev) > 0

\* C3: a Create or Update that returns an error of hashing, of an invalid
\* claim code, of the old-password check or of the lookup has issued no
\* write and left the collection as it was.
C3_FailFastNoWrite ==
    (/\ last.op \in {"Create", "Update"}
     /\ last.err.kind \in {"bcrypt", "not valid claim detected",
                           "old password incorrect", "not found", "invalid id"})
        => (last.issued = 0 /\ store = prev)

C3_Witness ==
    /\ last.op = "Update"
    /\ last.err.kind = "old password incorrect"
    /\ last.u.Name.present /\ last.u.Email.present
    /\ Len(store) > 0

\* C4 (as claimed): an Update that supplies newPassword replaces the stored
\* hash only if oldPassword verifies against it; in every other case, a
\* missing oldPassword included, it returns the credentials error as a value
\* and the stored hash is unchanged.
C4_OldPasswordGuardsNewPassword ==
    (/\ last.op = "Update"
     /\ last.u.NewPassword.present
     /\ \E i \in 1..Len(prev) : prev[i].ID = last.ID)
        => LET i == CHOOSE j \in 1..Len(prev) : prev[j].ID = last.ID
               verified == /\ last.u.OldPassword.present
                           /\ prev[i].PasswordHash.bcrypt
                           /\ prev[i].PasswordHash.body
                                = last.u.OldPassword.val.body
           IN /\ store[i].PasswordHash # prev[i].PasswordHash => verified
              /\ ~verified => /\ last.err = Err("old password incorrect")
                              /\ store[i].PasswordHash = prev[i].PasswordHash

\* C5: a successful Update sets exactly the supplied fields of the record
\* identified by id, refreshes updatedAt, keeps id and createdAt, and leaves
\* every other record as it was.
C5_MergePatch ==
    (last.op = "Update" /\ last.err = NoErr)
        => /\ Len(store) = Len(prev)
           /\ \E i \in 1..Len(prev) : prev[i].ID = last.ID
           /\ \A i \in 1..Len(prev) :
                 IF prev[i].ID # last.ID THEN store[i] = prev[i]
                 ELSE /\ store[i].Name = IF last.u.Name.present
                                         THEN last.u.Name.val ELSE prev[i].Name
                      /\ store[i].Surnames = IF last.u.Surnames.present
                                             THEN last.u.Surnames.val
                                             ELSE prev[i].Surnames
                      /\ store[i].Email = IF last.u.Email.present
                                          THEN last.u.Email.val ELSE prev[i].Email
                      /\ IF last.u.NewPassword.present
                         THEN /\ store[i].PasswordHash.bcrypt
                              /\ store[i].PasswordHash.body
                                   = last.u.NewPassword.val.body
                         ELSE store[i].PasswordHash = prev[i].PasswordHash
                      /\ store[i].Claims = IF last.u.Claims.present
                                           THEN last.u.Claims.val
                                           ELSE prev[i].Claims
                      /\ store[i].UpdatedAt = last.now
                      /\ store[i].ID = prev[i].ID
                      /\ store[i].CreatedAt = prev[i].CreatedAt

C5_Witness ==
    /\ last.op = "Update" /\ last.err = NoErr
    /\ last.u.Name.present /\ ~last.u.Email.present /\ ~last.u.Claims.present
    /\ Len(store) = 2
    /\ \E i \in 1..Len(store) : store[i].ID = last.ID /\ store[i].Name = "n2"

C7_TokenPayload ==
    tout # <<>> =>
        LET r == tout[1]
            bad == {k \in 1..Len(tin.claims) : tin.claims[k] \notin {0, 1}}
            firstBad == CHOOSE k \in bad : \A j \in bad : k <= j
            flags == DOMAIN r.token.payload \ {"authorized", "user_id", "exp"}
        IN IF bad # {}
           THEN /\ r.err = [kind |-> "not valid claim detected",
                            code |-> tin.claims[firstBad]]
                /\ r.token = NoToken
           ELSE /\ r.err = NoErr
                /\ r.token.payload["authorized"] = TRUE
                /\ r.token.payload["user_id"] = tin.userid
                /\ r.token.payload["exp"] = tin.now + 604800
                /\ flags = {ClaimNames[tin.claims[k]] : k \in 1..Len(tin.claims)}
                /\ \A f \in flags : r.token.payload[f] = TRUE

C7_Witness ==
    /\ tout # <<>>
    /\ tin.claims = <<3, 2>>
    /\ tout[1].err.code = 3

\* C8: GetByID on the identifier a successful Create returned yields the
\* input's name, surnames, email and claims, a hash of the input password
\* that is not the plaintext, createdAt = updatedAt, and an id and timestamps
\* of the service's making whatever the input carried.
C8_CreateGetByID ==
    (/\ last.op = "GetByID"
     /\ last.after.op = "Create"
     /\ last.after.err = NoErr
     /\ last.ID = last.after.InsertedID)
        => /\ last.err = NoErr
           /\ Len(last.user) = 1
           /\ LET got == last.user[1]
                  in == last.after.u
              IN /\ got.Name = in.Name
                 /\ got.Surnames = in.Surnames
                 /\ got.Email = in.Email
                 /\ got.Claims = in.Claims
                 /\ got.PasswordHash.bcrypt
                 /\ got.PasswordHash.body = in.PasswordHash.body
                 /\ got.PasswordHash # in.PasswordHash
                 /\ got.CreatedAt = got.UpdatedAt
                 /\ got.CreatedAt = last.after.now
                 /\ got.ID = last.after.InsertedID
                 /\ got.ID # in.ID

C8_Witness ==
    /\ last.op = "GetByID"
    /\ last.after.op = "Create"
    /\ last.after.err = NoErr
    /\ last.ID = last.after.InsertedID
    /\ last.after.u.PasswordHash.body = ""
    /\ Len(last.user) = 1

\* C9 (as claimed): when the ctx of an AtomicTransationProof call fires while
\* its storage call is pending, the transaction is rolled back: the call
\* returns an error and neither demo record is persisted.
C9_CancelRollsBackTransaction ==
    \A p \in DOMAIN pc :
        (/\ pc[p] = "idle"
         /\ call[p].op = "AtomicTransationProof"
         /\ cancelledPending[p])
            => /\ call[p].err # NoErr
               /\ \A i \in 1..Len(cstore) : cstore[i].ID \notin call[p].u

\* C10 (as claimed): two concurrent successful Updates of one user with
\* disjoint field sets both take effect: the stored record carries the name
\* of the one and the email of the other.
C10_ConcurrentUpdatesKeepBoth ==
    \A p \in DOMAIN pc : \A q \in DOMAIN pc :
        (/\ p # q
         /\ pc[p] = "idle" /\ pc[q] = "idle"
         /\ call[p].op = "Update" /\ call[q].op = "Update"
         /\ call[p].ID = call[q].ID
         /\ call[p].err = NoErr /\ call[q].err = NoErr
         /\ call[p].overlap /\ call[q].overlap
         /\ call[p].u.Name.present /\ ~call[p].u.Email.present
         /\ call[q].u.Email.present /\ ~call[q].u.Name.present)
            => \A i \in 1..Len(cstore) :
                  cstore[i].ID = call[p].ID
                     => /\ cstore[i].Name = call[p].u.Name.val
                        /\ cstore[i].Email = call[q].u.Email.val


====
